---- MODULE Spec2Model ----
(***************************************************************************)
(* A model of the Simple-JS-Blockchain ledger: Transaction, Block and      *)
(* Blockchain of blockchain.js.  Spec is the ledger under addTransaction   *)
(* and minePendingTransactions calls, SpecQueried the same with            *)
(* isChainValid and getBalanceOfAddress calls; SpecBlock is a single Block *)
(* under construction and mining, SpecBlockFair the same with its loop     *)
(* run fairly; SpecTx is a single Transaction being built, signed and      *)
(* validated.                                                              *)
(*                                                                         *)
(* JavaScript values are tagged records [t, n, s]; objects are records     *)
(* whose absent properties read as undefined (Prop).  Strings are TLA+     *)
(* strings, so `+` is real concatenation.                                  *)
(***************************************************************************)
EXTENDS Integers, Sequences, FiniteSets, TLC

VARIABLES chain, pendingTransactions, ret, block, pc, heldTx

vars == <<chain, pendingTransactions, ret, block, pc, heldTx>>

(***************************************************************************)
(* Bounds                                                                  *)
(***************************************************************************)
MaxChain == 3
MaxSubmitted == 1
MaxDifficulty == 2
MaxNonce == 12

(***************************************************************************)
(* JavaScript values                                                       *)
(***************************************************************************)
JsUndefined == [t |-> "undefined", n |-> 0, s |-> ""]
JsNull == [t |-> "null", n |-> 0, s |-> ""]
JsNaN == [t |-> "NaN", n |-> 0, s |-> ""]
JsNum(k) == [t |-> "number", n |-> k, s |-> ""]
JsStr(str) == [t |-> "string", n |-> 0, s |-> str]
JsTrue == [t |-> "boolean", n |-> 1, s |-> ""]
JsFalse == [t |-> "boolean", n |-> 0, s |-> ""]
JsArray(seq) == [t |-> "array", items |-> seq]

\* the outcome of a call: a returned value or a thrown Error(message)
Return(v) == [threw |-> "", value |-> v]
Throw(msg) == [threw |-> msg, value |-> JsUndefined]

\* obj.f : a property that was never assigned reads as undefined
Prop(obj, f) == IF f \in DOMAIN obj THEN obj[f] ELSE JsUndefined

\* !v is FALSE exactly for the truthy values
Truthy(v) ==
    CASE v.t = "undefined" -> FALSE
      [] v.t = "null" -> FALSE
      [] v.t = "NaN" -> FALSE
      [] v.t = "number" -> v.n # 0
      [] v.t = "boolean" -> v.n # 0
      [] v.t = "string" -> v.s # ""
      [] OTHER -> TRUE

\* String(v), as applied by `+` when one operand is a string
JsToString(v) ==
    CASE v.t = "undefined" -> "undefined"
      [] v.t = "null" -> "null"
      [] v.t = "NaN" -> "NaN"
      [] v.t = "number" -> ToString(v.n)
      [] OTHER -> v.s

\* Number(v) is NaN for undefined and NaN, 0 for null
JsIsNaNOperand(v) == v.t \in {"undefined", "NaN"}

\* a + b : concatenation when either operand is a string, else numeric
JsAdd(a, b) ==
    IF a.t = "string" \/ b.t = "string"
    THEN JsStr(JsToString(a) \o JsToString(b))
    ELSE IF JsIsNaNOperand(a) \/ JsIsNaNOperand(b)
         THEN JsNaN
         ELSE JsNum(a.n + b.n)

\* a - b on numbers
JsSub(a, b) ==
    IF JsIsNaNOperand(a) \/ JsIsNaNOperand(b)
    THEN JsNaN
    ELSE JsNum(a.n - b.n)

\* for (const x of v) : the characters of a string, the items of an array
Elements(v) ==
    IF v.t = "string"
    THEN [i \in 1..Len(v.s) |-> JsStr(SubSeq(v.s, i, i))]
    ELSE v.items

(***************************************************************************)
(* SHA256(x).toString(): a digest of two leading digits computed           *)
(* from a checksum of the input, followed by the input itself, so that     *)
(* the digest is injective on its input.                                   *)
(***************************************************************************)
CharCode(c) ==
    CASE c = "0" -> 1 [] c = "1" -> 2 [] c = "2" -> 3 [] c = "3" -> 4
      [] c = "4" -> 5 [] c = "5" -> 6 [] c = "6" -> 7 [] c = "7" -> 8
      [] c = "8" -> 9 [] c = "9" -> 10 [] OTHER -> 1

Occurrences(str, c) ==
    Cardinality({i \in 1..Len(str) : SubSeq(str, i, i) = c})

\* the sum of CharCode over the characters of str: 1 for each character,
\* and the rest of its code for each digit above "0"
Checksum(str) ==
    LET Weight(c) == (CharCode(c) - 1) * Occurrences(str, c)
    IN Len(str) + Weight("1") + Weight("2") + Weight("3") + Weight("4")
           + Weight("5") + Weight("6") + Weight("7") + Weight("8")
           + Weight("9")

Digit(k) == CASE k = 0 -> "0" [] k = 1 -> "1" [] OTHER -> "2"

\* the input is converted to its string once, then digested
SHA256(v) ==
    LET Digest(str) ==
            LET c == Checksum(str) % 9
            IN JsStr(Digit(c \div 3) \o Digit(c % 3) \o "[" \o str \o "]")
    IN CHOOSE h \in {Digest(str) : str \in {JsToString(v)}} : TRUE

(***************************************************************************)
(* Key pairs of the elliptic library: a key is known by its public         *)
(* component; a signature binds the signer's public key to the digest.     *)
(***************************************************************************)
Addresses == {"A", "B"}

KeyPair(pub) == [pub |-> pub]

getPublic(key) == JsStr(key.pub)

ecSign(key, digest) ==
    JsStr("sig(" \o key.pub \o "," \o digest.s \o ")")

ecVerify(pub, digest, signature) ==
    signature = JsStr("sig(" \o pub.s \o "," \o digest.s \o ")")

(***************************************************************************)
(* class Transaction                                                       *)
(***************************************************************************)
ErrNotYourWallet ==
    "You cannot sign transactions for other wallets, only your own."
ErrNoSignature == "No signature in this transaction"

Transaction(fromAddress, toAddress, amount) ==
    [fromAddress |-> fromAddress, toAddress |-> toAddress, amount |-> amount]

TxCalculateHash(tx) ==
    SHA256(JsAdd(JsAdd(tx.fromAddress, tx.toAddress), tx.amount))

\* signTransaction with the signature written before the key is compared
signTransaction_SignFirst(tx, key) ==
    LET signed == ("signature" :> ecSign(key, TxCalculateHash(tx))) @@ tx
    IN IF getPublic(key) # tx.fromAddress
       THEN [out |-> Throw(ErrNotYourWallet), tx |-> signed]
       ELSE [out |-> Return(JsUndefined), tx |-> signed]

\* the outcome of tx.signTransaction(key) and the transaction afterwards
signTransaction(tx, key) ==
    IF getPublic(key) # tx.fromAddress
    THEN [out |-> Throw(ErrNotYourWallet), tx |-> tx]
    ELSE [out |-> Return(JsUndefined),
          tx |-> ("signature" :> ecSign(key, TxCalculateHash(tx))) @@ tx]

\* isValid without the verification of the signature
TxIsValid_Unverified(tx) ==
    IF tx.fromAddress = JsNull
    THEN Return(JsTrue)
    ELSE LET signature == Prop(tx, "signature")
         IN IF ~Truthy(signature) \/ Len(signature.s) = 0
            THEN Throw(ErrNoSignature)
            ELSE Return(JsTrue)

TxIsValid(tx) ==
    IF tx.fromAddress = JsNull
    THEN Return(JsTrue)
    ELSE LET signature == Prop(tx, "signature")
         IN IF ~Truthy(signature) \/ Len(signature.s) = 0
            THEN Throw(ErrNoSignature)
            ELSE IF ecVerify(tx.fromAddress, TxCalculateHash(tx), signature)
                 THEN Return(JsTrue)
                 ELSE Return(JsFalse)

(***************************************************************************)
(* class Block                                                             *)
(***************************************************************************)
\* JSON.stringify of a primitive; undefined stays undefined
JSONstringify(v) ==
    CASE v.t = "undefined" -> JsUndefined
      [] v.t = "string" -> JsStr("\"" \o v.s \o "\"")
      [] v.t = "number" -> JsStr(ToString(v.n))
      [] v.t = "boolean" -> JsStr(IF v.n # 0 THEN "true" ELSE "false")
      [] OTHER -> JsStr("null")

calculateHash(b) ==
    SHA256(JsAdd(JsAdd(JsAdd(JsAdd(Prop(b, "index"),
                                   Prop(b, "timestamp")),
                             Prop(b, "previousHash")),
                       JSONstringify(Prop(b, "data"))),
                 Prop(b, "nonce")))

\* new Block(timestamp, transactions, previousHash = ''): the hash is
\* computed before the nonce property exists
NewBlock(timestamp, transactions, previousHash) ==
    LET fields == [timestamp |-> timestamp,
                   transactions |-> transactions,
                   previousHash |-> IF previousHash = JsUndefined
                                    THEN JsStr("")
                                    ELSE previousHash]
        hashed == ("hash" :> calculateHash(fields)) @@ fields
    IN ("nonce" :> JsNum(0)) @@ hashed

Min(a, b) == IF a < b THEN a ELSE b

\* str.substring(0, k)
Substring0(str, k) == SubSeq(str, 1, Min(k, Len(str)))

\* Array(k + 1).join("0"): k zeros, built by doubling
RECURSIVE Zeros(_)
Zeros(k) ==
    IF k <= 0 THEN ""
    ELSE LET half == Zeros(k \div 2)
         IN IF k % 2 = 0 THEN half \o half ELSE half \o half \o "0"

\* a while condition with the comparison turned round
MineCond_Inverted(b, d) == Substring0(b.hash.s, d) = Zeros(d)

\* a while condition that also ends the search when the hash is shorter
\* than the run of zeros asked for
MineCond_Guarded(b, d) ==
    d <= Len(b.hash.s) /\ Substring0(b.hash.s, d) # Zeros(d)

\* the while condition of mineBlock
MineCond(b, d) == Substring0(b.hash.s, d) # Zeros(d)

\* the while body of mineBlock
MineBody(b) ==
    LET Rehashed(bumped) == [bumped EXCEPT !.hash = calculateHash(bumped)]
    IN CHOOSE mined \in
           {Rehashed(bumped) :
                bumped \in {[b EXCEPT !.nonce = JsAdd(b.nonce, JsNum(1))]}} :
           TRUE

\* the number of iterations mineBlock makes, or more than fuel if it makes
\* more than fuel
RECURSIVE MineIterations(_, _, _)
MineIterations(b, d, fuel) ==
    IF ~MineCond(b, d) THEN 0
    ELSE IF fuel = 0 THEN 1
    ELSE 1 + MineIterations(MineBody(b), d, fuel - 1)

RECURSIVE mineBlock(_, _)
mineBlock(b, d) ==
    IF MineCond(b, d) THEN mineBlock(MineBody(b), d) ELSE b

\* calling isValid on an element that is not a Transaction
ErrNotAFunction == "TypeError: tx.isValid is not a function"

RECURSIVE HasValidFrom(_, _)
HasValidFrom(items, i) ==
    IF i > Len(items)
    THEN Return(JsTrue)
    ELSE LET r == IF "fromAddress" \in DOMAIN items[i]
                  THEN TxIsValid(items[i])
                  ELSE Throw(ErrNotAFunction)
         IN IF r.threw # "" THEN r
            ELSE IF ~Truthy(r.value) THEN Return(JsFalse)
            ELSE HasValidFrom(items, i + 1)

hasValidTransactions(b) == HasValidFrom(Elements(b.transactions), 1)

(***************************************************************************)
(* JSON.stringify of a Transaction and of a Block: the properties in the   *)
(* order the constructors assign them, undefined ones left out.            *)
(***************************************************************************)
RECURSIVE JSONfields(_, _, _)
JSONfields(obj, names, i) ==
    IF i > Len(names) THEN ""
    ELSE LET v == JSONstringify(Prop(obj, names[i]))
             rest == JSONfields(obj, names, i + 1)
         IN IF v = JsUndefined THEN rest
            ELSE "\"" \o names[i] \o "\":" \o v.s
                 \o (IF rest = "" THEN "" ELSE "," \o rest)

TransactionJSON(tx) ==
    "{" \o JSONfields(tx, <<"fromAddress", "toAddress", "amount",
                            "signature">>, 1) \o "}"

RECURSIVE TransactionsJSON(_, _)
TransactionsJSON(items, i) ==
    IF i > Len(items) THEN ""
    ELSE TransactionJSON(items[i])
         \o (IF i < Len(items) THEN "," ELSE "")
         \o TransactionsJSON(items, i + 1)

\* a serialization that leaves the nonce out
BlockJSON_NoNonce(b) ==
    "{" \o JSONfields(b, <<"timestamp">>, 1)
        \o ",\"transactions\":"
        \o (IF b.transactions.t = "array"
            THEN "[" \o TransactionsJSON(b.transactions.items, 1) \o "]"
            ELSE JSONstringify(b.transactions).s)
        \o "," \o JSONfields(b, <<"previousHash", "hash">>, 1)
        \o "}"

BlockJSON(b) ==
    "{" \o JSONfields(b, <<"timestamp">>, 1)
        \o ",\"transactions\":"
        \o (IF b.transactions.t = "array"
            THEN "[" \o TransactionsJSON(b.transactions.items, 1) \o "]"
            ELSE JSONstringify(b.transactions).s)
        \o "," \o JSONfields(b, <<"previousHash", "hash", "nonce">>, 1)
        \o "}"

(***************************************************************************)
(* class Blockchain                                                        *)
(***************************************************************************)
ErrIncomplete == "Transaction must include from and to address"
ErrInvalid == "Cannot add invalid transaction to the chain"

difficulty == 2
miningReward == 100

createGenesisBlock ==
    NewBlock(JsStr("01/01/2020"), JsStr("Genesis block"), JsStr("0"))

getLatestBlock(c) == c[Len(c)]

\* minePendingTransactions putting the mined block at the front of the chain
MinedLedger_Unshift(c, pending, miningRewardAddress, now) ==
    LET rewardTx == Transaction(JsNull, miningRewardAddress,
                                JsNum(miningReward))
        pushed == Append(pending, rewardTx)
        fresh == NewBlock(JsNum(now), JsArray(pushed), JsUndefined)
        mined == mineBlock(fresh, difficulty)
    IN [chain |-> <<mined>> \o c,
        pendingTransactions |->
            <<Transaction(JsNull, miningRewardAddress, JsNum(miningReward))>>,
        fresh |-> fresh]

\* minePendingTransactions putting the reward transaction before the pool's
MinedLedger_RewardFirst(c, pending, miningRewardAddress, now) ==
    LET rewardTx == Transaction(JsNull, miningRewardAddress,
                                JsNum(miningReward))
        pushed == <<rewardTx>> \o pending
        fresh == NewBlock(JsNum(now), JsArray(pushed), JsUndefined)
        mined == mineBlock(fresh, difficulty)
    IN [chain |-> Append(c, mined),
        pendingTransactions |->
            <<Transaction(JsNull, miningRewardAddress, JsNum(miningReward))>>,
        fresh |-> fresh]

\* minePendingTransactions resetting the pool to the empty list
MinedLedger_EmptyPool(c, pending, miningRewardAddress, now) ==
    LET rewardTx == Transaction(JsNull, miningRewardAddress,
                                JsNum(miningReward))
        pushed == Append(pending, rewardTx)
        fresh == NewBlock(JsNum(now), JsArray(pushed), JsUndefined)
        mined == mineBlock(fresh, difficulty)
    IN [chain |-> Append(c, mined),
        pendingTransactions |-> <<>>,
        fresh |-> fresh]

\* the chain and the pool after minePendingTransactions(miningRewardAddress)
\* called when Date.now() is now
MinedLedger(c, pending, miningRewardAddress, now) ==
    LET rewardTx == Transaction(JsNull, miningRewardAddress,
                                JsNum(miningReward))
        pushed == Append(pending, rewardTx)
        fresh == NewBlock(JsNum(now), JsArray(pushed), JsUndefined)
        mined == mineBlock(fresh, difficulty)
    IN [chain |-> Append(c, mined),
        pendingTransactions |->
            <<Transaction(JsNull, miningRewardAddress, JsNum(miningReward))>>,
        fresh |-> fresh]

\* addTransaction pushing before it validates
AddedPool_ValidityFirst(pending, transaction) ==
    LET v == TxIsValid(transaction)
    IN IF v.threw # ""
       THEN [out |-> v, pendingTransactions |-> pending]
       ELSE IF ~Truthy(v.value)
       THEN [out |-> Throw(ErrInvalid), pendingTransactions |-> pending]
       ELSE IF ~Truthy(transaction.fromAddress)
               \/ ~Truthy(transaction.toAddress)
       THEN [out |-> Throw(ErrIncomplete), pendingTransactions |-> pending]
       ELSE [out |-> Return(JsUndefined),
             pendingTransactions |-> Append(pending, transaction)]

AddedPool_PositiveOnly(pending, transaction) ==
    IF ~Truthy(transaction.fromAddress) \/ ~Truthy(transaction.toAddress)
    THEN [out |-> Throw(ErrIncomplete), pendingTransactions |-> pending]
    ELSE LET v == TxIsValid(transaction)
         IN IF v.threw # ""
            THEN [out |-> v, pendingTransactions |-> pending]
            ELSE IF ~Truthy(v.value) \/ transaction.amount.n <= 0
            THEN [out |-> Throw(ErrInvalid), pendingTransactions |-> pending]
            ELSE [out |-> Return(JsUndefined),
                  pendingTransactions |-> Append(pending, transaction)]

AddedPool_PushFirst(pending, transaction) ==
    LET pushed == Append(pending, transaction)
    IN IF ~Truthy(transaction.fromAddress) \/ ~Truthy(transaction.toAddress)
       THEN [out |-> Throw(ErrIncomplete), pendingTransactions |-> pending]
       ELSE LET v == TxIsValid(transaction)
            IN IF v.threw # ""
               THEN [out |-> v, pendingTransactions |-> pushed]
               ELSE IF ~Truthy(v.value)
               THEN [out |-> Throw(ErrInvalid), pendingTransactions |-> pushed]
               ELSE [out |-> Return(JsUndefined),
                     pendingTransactions |-> pushed]

\* the outcome of addTransaction(transaction) and the pool afterwards
AddedPool(pending, transaction) ==
    IF ~Truthy(transaction.fromAddress) \/ ~Truthy(transaction.toAddress)
    THEN [out |-> Throw(ErrIncomplete), pendingTransactions |-> pending]
    ELSE LET v == TxIsValid(transaction)
         IN IF v.threw # ""
            THEN [out |-> v, pendingTransactions |-> pending]
            ELSE IF ~Truthy(v.value)
            THEN [out |-> Throw(ErrInvalid), pendingTransactions |-> pending]
            ELSE [out |-> Return(JsUndefined),
                  pendingTransactions |-> Append(pending, transaction)]

\* the inner loop of getBalanceOfAddress without the debit of the sender
RECURSIVE BalanceOver_NoDebit(_, _, _, _)
BalanceOver_NoDebit(items, i, address, balance) ==
    IF i > Len(items) THEN balance
    ELSE LET trans == items[i]
             credited == IF Prop(trans, "toAddress") = address
                         THEN JsAdd(balance, Prop(trans, "amount"))
                         ELSE balance
         IN BalanceOver_NoDebit(items, i + 1, address, credited)

RECURSIVE BalanceOver(_, _, _, _)
BalanceOver(items, i, address, balance) ==
    IF i > Len(items) THEN balance
    ELSE LET trans == items[i]
             debited == IF Prop(trans, "fromAddress") = address
                        THEN JsSub(balance, Prop(trans, "amount"))
                        ELSE balance
             credited == IF Prop(trans, "toAddress") = address
                         THEN JsAdd(debited, Prop(trans, "amount"))
                         ELSE debited
         IN BalanceOver(items, i + 1, address, credited)

RECURSIVE BalanceFrom(_, _, _, _)
BalanceFrom(c, i, address, balance) ==
    IF i > Len(c) THEN balance
    ELSE BalanceFrom(c, i + 1, address,
             BalanceOver(Elements(c[i].transactions), 1, address, balance))

getBalanceOfAddress(c, address) == BalanceFrom(c, 1, address, JsNum(0))

\* the for loop of isChainValid, from index i (1-based) on
RECURSIVE ChainValidFrom(_, _)
ChainValidFrom(c, i) ==
    IF i > Len(c) THEN Return(JsTrue)
    ELSE LET currentBlock == c[i]
             previousBlock == c[i - 1]
             txs == hasValidTransactions(currentBlock)
         IN IF txs.threw # "" THEN txs
            ELSE IF ~Truthy(txs.value) THEN Return(JsFalse)
            ELSE IF currentBlock.hash # calculateHash(currentBlock)
            THEN Return(JsFalse)
            ELSE IF currentBlock.previousHash # previousBlock.hash
            THEN Return(JsFalse)
            ELSE ChainValidFrom(c, i + 1)

\* isChainValid with the first block checked against its own recomputed
\* hash instead of against a new genesis block
isChainValid_GenesisRehashed(c) ==
    IF c[1].hash # calculateHash(c[1])
    THEN Return(JsFalse)
    ELSE ChainValidFrom(c, 2)

isChainValid(c) ==
    IF BlockJSON(createGenesisBlock) # BlockJSON(c[1])
    THEN Return(JsFalse)
    ELSE ChainValidFrom(c, 2)

\* a validation that drops the blocks after the genesis block when it finds
\* the chain invalid
Validated_Truncating(c, pending) ==
    LET out == isChainValid(c)
    IN [out |-> out,
        chain |-> IF out = Return(JsTrue) THEN c ELSE <<c[1]>>,
        pendingTransactions |-> pending]

\* the outcome of isChainValid() and the ledger after the call
Validated(c, pending) ==
    [out |-> isChainValid(c), chain |-> c, pendingTransactions |-> pending]

\* the outcome of getBalanceOfAddress(address) and the ledger after the call
Balanced(c, pending, address) ==
    [out |-> Return(getBalanceOfAddress(c, address)),
     chain |-> c, pendingTransactions |-> pending]

(***************************************************************************)
(* The callers' inputs                                                     *)
(***************************************************************************)
\* Date.now() when the chain holds k blocks: the clock ticks once a block
Now(c) == Len(c)

Times == 1..MaxChain
Amounts == {1, 2}

AddressValues == {JsStr(a) : a \in Addresses}

OtherAddress(a) == CHOOSE o \in Addresses : o # a

\* a transaction as a caller hands it to addTransaction: built by the
\* constructor, then left unsigned, signed with the sender's key, given an
\* empty signature, signed and then changed, or given another key's signature
Submitted(fromAddress, toAddress, amount, how) ==
    LET tx == Transaction(fromAddress, toAddress, JsNum(amount))
    IN CASE how = "signed" /\ fromAddress \in AddressValues ->
                signTransaction(tx, KeyPair(fromAddress.s)).tx
         [] how = "changed" /\ fromAddress \in AddressValues ->
                [signTransaction(tx, KeyPair(fromAddress.s)).tx
                    EXCEPT !.amount = JsNum(amount + 1)]
         [] how = "forged" /\ fromAddress \in AddressValues ->
                ("signature" :> ecSign(KeyPair(OtherAddress(fromAddress.s)),
                                       TxCalculateHash(tx))) @@ tx
         [] how = "empty" -> ("signature" :> JsStr("")) @@ tx
         [] OTHER -> tx

Hows == {"unsigned", "signed", "changed", "forged", "empty"}

\* correctly signed transfers from one address to the other
SignedTransactions ==
    {Submitted(f, JsStr(OtherAddress(f.s)), a, "signed") :
         f \in AddressValues, a \in Amounts}

\* transfers A -> B that are unsigned or carry a signature that is empty,
\* stale or another key's
BadlySignedTransactions ==
    {Submitted(JsStr("A"), JsStr("B"), 1, h) : h \in Hows \ {"signed"}}

\* transactions without a sender or without a recipient
IncompleteTransactions ==
    {Submitted(JsNull, JsStr("B"), 1, "unsigned"),
     Submitted(JsStr(""), JsStr("B"), 1, "unsigned"),
     Submitted(JsStr("A"), JsStr(""), 1, "unsigned"),
     Submitted(JsStr("A"), JsStr(""), 1, "signed")}

SubmittedTransactions ==
    SignedTransactions \cup BadlySignedTransactions
        \cup IncompleteTransactions

\* the number of accepted submissions a list of transactions holds
Submissions(items) ==
    Cardinality({i \in 1..Len(items) : items[i].fromAddress # JsNull})

RECURSIVE SubmissionsFrom(_, _)
SubmissionsFrom(c, i) ==
    IF i > Len(c) THEN 0
    ELSE Submissions(c[i].transactions.items) + SubmissionsFrom(c, i + 1)

\* the number of submissions the ledger has accepted so far
Accepted(c, pending) == Submissions(pending) + SubmissionsFrom(c, 2)

(***************************************************************************)
(* The ledger: new Blockchain(), then addTransaction,                      *)
(* minePendingTransactions, isChainValid and getBalanceOfAddress calls     *)
(***************************************************************************)
NoBlock == [timestamp |-> JsUndefined]
NoTransaction == [amount |-> JsUndefined]

Init ==
    /\ chain = <<createGenesisBlock>>
    /\ pendingTransactions = <<>>
    /\ ret = [op |-> "new Blockchain", out |-> Return(JsUndefined)]
    /\ block = NoBlock
    /\ pc = [loc |-> "idle", difficulty |-> 0]
    /\ heldTx = NoTransaction

\* addTransaction(transaction), followed while the ledger has accepted
\* fewer than limit submissions
addTransactionWithin(transaction, limit) ==
    /\ LET r == AddedPool(pendingTransactions, transaction)
       IN /\ \/ r.out.threw # ""
             \/ Accepted(chain, pendingTransactions) < limit
          /\ pendingTransactions' = r.pendingTransactions
          /\ ret' = [op |-> "addTransaction", out |-> r.out]
    /\ UNCHANGED <<heldTx, chain, block, pc>>

addTransaction(transaction) == addTransactionWithin(transaction, MaxSubmitted)

minePendingTransactions(miningRewardAddress, now) ==
    /\ Len(chain) < MaxChain
    /\ LET r == MinedLedger(chain, pendingTransactions,
                            miningRewardAddress, now)
       IN /\ MineIterations(r.fresh, difficulty, MaxNonce) <= MaxNonce
          /\ chain' = r.chain
          /\ pendingTransactions' = r.pendingTransactions
    /\ ret' = [op |-> "minePendingTransactions", out |-> Return(JsUndefined)]
    /\ UNCHANGED <<heldTx, block, pc>>

IsChainValidCall ==
    /\ LET r == Validated(chain, pendingTransactions)
       IN /\ chain' = r.chain
          /\ pendingTransactions' = r.pendingTransactions
          /\ ret' = [op |-> "isChainValid", out |-> r.out]
    /\ UNCHANGED <<heldTx, block, pc>>

GetBalance(address) ==
    /\ LET r == Balanced(chain, pendingTransactions, address)
       IN /\ chain' = r.chain
          /\ pendingTransactions' = r.pendingTransactions
          /\ ret' = [op |-> "getBalanceOfAddress", out |-> r.out]
    /\ UNCHANGED <<heldTx, block, pc>>

GetBalanceCall == \E a \in AddressValues : GetBalance(a)

AddTransactionCall == \E tx \in SubmittedTransactions : addTransaction(tx)

MineCall ==
    \E a \in AddressValues : minePendingTransactions(a, Now(chain))

Next == AddTransactionCall \/ MineCall

Spec == Init /\ [][Next]_vars

\* submissions the ledger has no check against: transfers A -> B of a
\* negative amount, of nothing, and of more than A can have, and a transfer
\* from A to A
PermissiveTransactions ==
    {Submitted(JsStr("A"), JsStr("B"), a, "signed") : a \in {-1, 0, 3}}
    \cup {Submitted(JsStr("A"), JsStr("A"), 3, "signed")}

PermissiveAddCall ==
    \E tx \in PermissiveTransactions :
        addTransactionWithin(tx, MaxSubmitted + 1)

NextPermissive == PermissiveAddCall \/ MineCall

\* the ledger under those submissions, the same one twice included
SpecPermissive == Init /\ [][NextPermissive]_vars

\* the ledger with its two queries called between the other calls
NextQueried == Next \/ IsChainValidCall \/ GetBalanceCall

SpecQueried == Init /\ [][NextQueried]_vars

(***************************************************************************)
(* A single Block in the hands of a caller: new Block(...), then           *)
(* mineBlock(d) one loop iteration at a time                               *)
(***************************************************************************)
RewardTransactions ==
    {Transaction(JsNull, a, JsNum(miningReward)) : a \in AddressValues}

\* the transaction lists a Block is constructed over: a pool of submitted
\* transactions, with or without the reward transaction pushed after them
BlockTransactions ==
    {JsStr("Genesis block"), JsArray(<<>>)}
    \cup {JsArray(<<tx>>) : tx \in SubmittedTransactions \cup RewardTransactions}
    \cup {JsArray(<<tx, r>>) : tx \in SubmittedTransactions,
                               r \in RewardTransactions}

BlockTimestamps == {JsStr("01/01/2020")} \cup {JsNum(now) : now \in Times}

BlockPreviousHashes == {JsUndefined, JsStr("0"), createGenesisBlock.hash}

BlockConstruct(timestamp, transactions, previousHash) ==
    /\ pc.loc = "idle"
    /\ block' = NewBlock(timestamp, transactions, previousHash)
    /\ pc' = [loc |-> "constructed", difficulty |-> 0]
    /\ UNCHANGED <<heldTx, chain, pendingTransactions, ret>>

MineBlockCall(d) ==
    /\ pc.loc \in {"constructed", "mined"}
    /\ pc' = [loc |-> "mining", difficulty |-> d]
    /\ UNCHANGED <<heldTx, chain, pendingTransactions, ret, block>>

\* one pass of the while loop; the search is followed up to nonce MaxNonce
MineBlockIterate ==
    /\ pc.loc = "mining"
    /\ MineCond(block, pc.difficulty)
    /\ block.nonce.n < MaxNonce
    /\ block' = MineBody(block)
    /\ UNCHANGED <<heldTx, chain, pendingTransactions, ret, pc>>

MineBlockReturn ==
    /\ pc.loc = "mining"
    /\ ~MineCond(block, pc.difficulty)
    /\ pc' = [pc EXCEPT !.loc = "mined"]
    /\ UNCHANGED <<heldTx, chain, pendingTransactions, ret, block>>

BlockConstructCall ==
    \E ts \in BlockTimestamps, txs \in BlockTransactions,
       prev \in BlockPreviousHashes : BlockConstruct(ts, txs, prev)

\* a difficulty greater than the length of any hash text
DifficultyBeyondHash == 100

Difficulties == 0..MaxDifficulty \cup {DifficultyBeyondHash}

MineBlockStart == \E d \in Difficulties : MineBlockCall(d)

NextBlock ==
    BlockConstructCall \/ MineBlockStart \/ MineBlockIterate \/ MineBlockReturn

SpecBlock == Init /\ [][NextBlock]_vars

\* mineBlock is one synchronous call: once entered, its loop keeps taking
\* its next step, and it returns as soon as the loop condition is false
SpecBlockFair ==
    SpecBlock /\ WF_vars(MineBlockIterate) /\ WF_vars(MineBlockReturn)

(***************************************************************************)
(* A single Transaction in the hands of a caller: new Transaction(...),    *)
(* then signTransaction and isValid calls and out-of-band writes to its    *)
(* properties                                                              *)
(***************************************************************************)
Keys == {KeyPair(a) : a \in Addresses}

TxSenders == {JsNull} \cup AddressValues

\* recipients: the two addresses, and a string that is one of them with a
\* digit after it
TxRecipients == AddressValues \cup {JsStr("B1")}

TxAmounts == Amounts \cup {0, 12}

TxConstruct(fromAddress, toAddress, amount) ==
    /\ heldTx = NoTransaction
    /\ heldTx' = Transaction(fromAddress, toAddress, JsNum(amount))
    /\ ret' = [op |-> "new Transaction", out |-> Return(JsUndefined)]
    /\ UNCHANGED <<chain, pendingTransactions, block, pc>>

TxSign(key) ==
    /\ heldTx # NoTransaction
    /\ LET r == signTransaction(heldTx, key)
       IN /\ heldTx' = r.tx
          /\ ret' = [op |-> "signTransaction", out |-> r.out]
    /\ UNCHANGED <<chain, pendingTransactions, block, pc>>

TxIsValidCall ==
    /\ heldTx # NoTransaction
    /\ ret' = [op |-> "isValid", out |-> TxIsValid(heldTx)]
    /\ UNCHANGED <<chain, pendingTransactions, block, pc, heldTx>>

\* tx.fromAddress = v, tx.toAddress = v, tx.amount = v or tx.signature = v,
\* written by the caller
TxWrite(field, v) ==
    /\ heldTx # NoTransaction
    /\ heldTx' = (field :> v) @@ heldTx
    /\ ret' = [op |-> "write", out |-> Return(v)]
    /\ UNCHANGED <<chain, pendingTransactions, block, pc>>

TxConstructCall ==
    \E f \in TxSenders, t \in TxRecipients, a \in TxAmounts :
        TxConstruct(f, t, a)

TxSignCall == \E key \in Keys : TxSign(key)

TxWriteCall ==
    \/ \E v \in TxSenders : TxWrite("fromAddress", v)
    \/ \E v \in TxRecipients : TxWrite("toAddress", v)
    \/ \E a \in TxAmounts : TxWrite("amount", JsNum(a))
    \/ TxWrite("signature", JsStr(""))

NextTx == TxConstructCall \/ TxSignCall \/ TxIsValidCall \/ TxWriteCall

SpecTx == Init /\ [][NextTx]_vars

(***************************************************************************)
(* Properties                                                              *)
(***************************************************************************)
Items(b) == b.transactions.items

IsReward(tx) == tx.fromAddress = JsNull

\* the block is at rest in a caller's hands: constructed, or mined
BlockAtRest == pc.loc \in {"constructed", "mined"}

\* the ledger whose chain has had the caller's block pushed onto it
LedgerWith(b) == Append(chain, b)

\* out-of-band writes, as main.js makes them
WithAmount(c, i, j, a) ==
    [c EXCEPT ![i].transactions.items[j].amount = JsNum(a)]

BlockWithAmount(b, j, a) ==
    [b EXCEPT !.transactions.items[j].amount = JsNum(a)]

TamperAmounts == 0..3

\* C1: in every state reached through addTransaction and
\* minePendingTransactions, every block after the genesis block has
\* previousHash equal to the hash of the block before it
C1_BlocksLinked ==
    \A i \in 2..Len(chain) : chain[i].previousHash = chain[i - 1].hash

\* C2: on every ledger reached through addTransaction and
\* minePendingTransactions only, isChainValid() returns true
C2_ApiLedgerValid == isChainValid(chain) = Return(JsTrue)

\* C3: once a signed non-reward transaction is mined into a block, changing
\* its amount to a different value, without re-signing or rehashing, makes
\* hasValidTransactions() of that block and isChainValid() return false
C3_ChangedAmountDetected ==
    \A i \in 2..Len(chain) : \A j \in 1..Len(Items(chain[i])) :
        LET tx == Items(chain[i])[j]
        IN (~IsReward(tx) /\ TxIsValid(tx) = Return(JsTrue)) =>
               \A a \in TamperAmounts \ {tx.amount.n} :
                   LET tampered == WithAmount(chain, i, j, a)
                   IN /\ hasValidTransactions(tampered[i]) = Return(JsFalse)
                      /\ isChainValid(tampered) = Return(JsFalse)

C3_Witness ==
    /\ Len(chain) = 3
    /\ \E j \in 1..Len(Items(chain[3])) :
           LET tx == Items(chain[3])[j]
           IN /\ ~IsReward(tx)
              /\ TxIsValid(tx) = Return(JsTrue)
              /\ isChainValid(WithAmount(chain, 3, j, tx.amount.n + 1))
                     = Return(JsFalse)

\* single-field mutations of a block: the amount of one transaction (the
\* reward transaction included), the stored hash, the previousHash
StrayHash == JsStr("00[stray]")

BlockMutations(b) ==
    {BlockWithAmount(b, j, a) :
         j \in 1..Len(Items(b)), a \in TamperAmounts \cup {miningReward + 1}}
    \cup {[b EXCEPT !.hash = h] : h \in {StrayHash, b.previousHash}}
    \cup {[b EXCEPT !.previousHash = h] : h \in {StrayHash, JsStr("")}}

\* C4: on a ledger for which isChainValid() returns true, mutating a single
\* field of a block after the genesis block (one transaction's amount, the
\* stored hash or previousHash) makes isChainValid() return false
C4_AnyMutationDetected ==
    (/\ BlockAtRest
     /\ block.transactions.t = "array"
     /\ isChainValid(LedgerWith(block)) = Return(JsTrue)) =>
        \A m \in BlockMutations(block) :
            m # block => isChainValid(LedgerWith(m)) = Return(JsFalse)

\* C5: on a new ledger, addTransaction of a transaction A -> B of amount x
\* signed by A, with A # B, followed by minePendingTransactions(A), leaves
\* getBalanceOfAddress(A) = miningReward - x and getBalanceOfAddress(B) = x
C5_TransferThenMine ==
    [][\A A \in AddressValues, B \in AddressValues, x \in Amounts :
           (/\ A # B
            /\ chain = <<createGenesisBlock>>
            /\ pendingTransactions = <<Submitted(A, B, x, "signed")>>
            /\ minePendingTransactions(A, Now(chain))) =>
               /\ getBalanceOfAddress(chain', A) = JsNum(miningReward - x)
               /\ getBalanceOfAddress(chain', B) = JsNum(x)]_vars

C5_Witness ==
    /\ ret.op = "minePendingTransactions"
    /\ Len(chain) = 2
    /\ \E x \in Amounts :
           /\ Items(chain[2]) =
                  <<Submitted(JsStr("A"), JsStr("B"), x, "signed"),
                    Transaction(JsNull, JsStr("A"), JsNum(miningReward))>>
           /\ getBalanceOfAddress(chain, JsStr("A")) = JsNum(miningReward - x)
           /\ getBalanceOfAddress(chain, JsStr("B")) = JsNum(x)

RewardCount(b) ==
    Cardinality({j \in 1..Len(Items(b)) : IsReward(Items(b)[j])})

\* the chain holds nothing but blocks mined for address with an empty pool
OnlyMinedFor(c, address) ==
    \A i \in 2..Len(c) : \A j \in 1..Len(Items(c[i])) :
        IsReward(Items(c[i])[j]) /\ Items(c[i])[j].toAddress = address

\* C6: every block appended by minePendingTransactions holds exactly one
\* reward transaction, and after n minePendingTransactions(A) calls with no
\* other transactions getBalanceOfAddress(A) = n * miningReward
C6_OneRewardPerBlock ==
    /\ \A i \in 2..Len(chain) : RewardCount(chain[i]) = 1
    /\ \A A \in AddressValues :
           OnlyMinedFor(chain, A) =>
               getBalanceOfAddress(chain, A)
                   = JsNum((Len(chain) - 1) * miningReward)

\* blocks that differ from b in exactly one of timestamp, one transaction's
\* amount, previousHash and nonce
OneFieldVariants(b) ==
    {[b EXCEPT !.timestamp = ts] :
         ts \in (BlockTimestamps \cup {JsNum(0)}) \ {b.timestamp}}
    \cup (IF b.transactions.t = "array"
          THEN UNION {{BlockWithAmount(b, j, a) :
                          a \in TamperAmounts \ {Items(b)[j].amount.n}} :
                      j \in 1..Len(Items(b))}
          ELSE {})
    \cup {[b EXCEPT !.previousHash = h] : h \in {StrayHash} \ {b.previousHash}}
    \cup {[b EXCEPT !.nonce = JsNum(b.nonce.n + 1)]}

\* C7: two blocks that differ in exactly one of timestamp, one transaction's
\* amount, previousHash and nonce have different calculateHash() values
C7_HashSensitive ==
    BlockAtRest =>
        \A v \in OneFieldVariants(block) :
            calculateHash(v) # calculateHash(block)

\* C8: right after construction and after mineBlock(d) has returned, for
\* every d >= 0, the stored hash equals calculateHash() over the block's
\* current fields
C8_StoredHashCurrent ==
    BlockAtRest => block.hash = calculateHash(block)

UnsignedIn(b) ==
    \E j \in 1..Len(Items(b)) :
        /\ ~IsReward(Items(b)[j])
        /\ ~Truthy(Prop(Items(b)[j], "signature"))

\* C9: hasValidTransactions() and isChainValid() return a boolean and never
\* raise; for a block after the genesis block holding a non-reward
\* transaction without a signature both return false
C9_ValidationNeverRaises ==
    (BlockAtRest /\ block.transactions.t = "array") =>
        /\ hasValidTransactions(block).threw = ""
        /\ isChainValid(LedgerWith(block)).threw = ""
        /\ UnsignedIn(block) =>
               /\ hasValidTransactions(block) = Return(JsFalse)
               /\ isChainValid(LedgerWith(block)) = Return(JsFalse)

\* C10: a failing addTransaction call (incomplete, unsigned, or invalid
\* transaction) leaves pendingTransactions and chain as they were; a call
\* that does not fail appends exactly that transaction to the pool
C10_AddTransactionAllOrNothing ==
    [][\A tx \in SubmittedTransactions :
           (ret'.op = "addTransaction" /\ addTransaction(tx)) =>
               /\ chain' = chain
               /\ ret'.out.threw \in {"", ErrIncomplete, ErrNoSignature,
                                      ErrInvalid}
               /\ (~Truthy(tx.fromAddress) \/ ~Truthy(tx.toAddress)) =>
                      ret'.out.threw = ErrIncomplete
               /\ ret'.out.threw # "" =>
                      pendingTransactions' = pendingTransactions
               /\ ret'.out.threw = "" =>
                      pendingTransactions' = Append(pendingTransactions, tx)]_vars

C10_Witness ==
    /\ ret.op = "addTransaction"
    /\ ret.out.threw = ErrInvalid
    /\ Len(pendingTransactions) = 1
    /\ Len(chain) = 2

\* C11: signTransaction called with a key whose public key is not the
\* transaction's fromAddress throws the "other wallets" error and leaves
\* the signature property as it was, absent or set
C11_OtherKeyRefused ==
    [][\A key \in Keys :
          (TxSign(key) /\ getPublic(key) # heldTx.fromAddress)
              => /\ ret'.out = Throw(ErrNotYourWallet)
                 /\ DOMAIN heldTx' = DOMAIN heldTx
                 /\ Prop(heldTx', "signature") = Prop(heldTx, "signature")]_vars

\* a transaction signed by its sender has then been refused another key
\* and still carries the sender's signature
C11_Witness ==
    /\ ret.op = "signTransaction"
    /\ ret.out = Throw(ErrNotYourWallet)
    /\ heldTx.fromAddress \in AddressValues
    /\ Prop(heldTx, "signature")
           = ecSign(KeyPair(heldTx.fromAddress.s), TxCalculateHash(heldTx))

\* C12: isValid returns true for every transaction whose fromAddress is
\* null, whatever its signature property holds; for any other transaction
\* it throws the "no signature" error when the signature is absent or
\* empty, returns true when the signature is the one signTransaction makes
\* with the sender's key over the present fromAddress, toAddress and amount,
\* and returns false, without throwing, for any other signature
C12_IsValidOutcome ==
    ret.op = "isValid" =>
        LET signature == Prop(heldTx, "signature")
            fresh == Transaction(heldTx.fromAddress, heldTx.toAddress,
                                 heldTx.amount)
        IN IF heldTx.fromAddress = JsNull
           THEN ret.out = Return(JsTrue)
           ELSE IF signature \in {JsUndefined, JsStr("")}
           THEN ret.out = Throw(ErrNoSignature)
           ELSE IF signature
                     = signTransaction(fresh, KeyPair(heldTx.fromAddress.s))
                           .tx.signature
           THEN ret.out = Return(JsTrue)
           ELSE ret.out = Return(JsFalse)

\* isValid has returned false on a transaction that carries a signature
C12_Witness ==
    /\ ret.op = "isValid"
    /\ ret.out = Return(JsFalse)
    /\ heldTx.fromAddress \in AddressValues
    /\ Truthy(Prop(heldTx, "signature"))

C14_FreshLedgerValid ==
    (ret.op = "isChainValid" /\ Len(chain) = 1 /\ pendingTransactions = <<>>)
        => ret.out = Return(JsTrue)

\* isChainValid() has been called on the ledger as constructed
C14_Witness ==
    /\ ret = [op |-> "isChainValid", out |-> Return(JsTrue)]
    /\ chain = <<createGenesisBlock>>
    /\ pendingTransactions = <<>>

\* C15: an isChainValid() or getBalanceOfAddress() call changes neither the
\* chain nor the pool, and after an isChainValid() call a second call
\* returns what the first returned
C15_QueriesReadOnly ==
    /\ [][(/\ ret'.op \in {"isChainValid", "getBalanceOfAddress"}
            /\ (IsChainValidCall \/ GetBalanceCall))
              => (chain' = chain
                  /\ pendingTransactions' = pendingTransactions)]_vars
    /\ [](ret.op = "isChainValid"
              => Validated(chain, pendingTransactions).out = ret.out)

\* isChainValid() has returned on a ledger with a mined block and a pool
\* that holds a submitted transaction
C15_Witness ==
    /\ ret.op = "isChainValid"
    /\ Len(chain) >= 2
    /\ Submissions(pendingTransactions) >= 1

\* C16: the chain only grows at its end: every minePendingTransactions call
\* makes it longer by exactly one block and leaves the blocks it had as they
\* were, addTransaction leaves the chain as it was, and the first block is
\* always the genesis block, with previousHash "0", its nonce still 0 and
\* the string "Genesis block" in place of transactions
C16_ChainAppendOnly ==
    /\ [](/\ Len(chain) >= 1
          /\ chain[1] = createGenesisBlock
          /\ chain[1].previousHash = JsStr("0")
          /\ chain[1].nonce = JsNum(0)
          /\ chain[1].transactions = JsStr("Genesis block"))
    /\ [][/\ Len(chain') >= Len(chain)
          /\ SubSeq(chain', 1, Len(chain)) = chain
          /\ (ret'.op = "minePendingTransactions" /\ MineCall)
                 => Len(chain') = Len(chain) + 1
          /\ ret'.op = "addTransaction" => chain' = chain]_vars

\* two blocks have been mined and a transaction then accepted
C16_Witness ==
    /\ Len(chain) = 3
    /\ ret = [op |-> "addTransaction", out |-> Return(JsUndefined)]

\* C17: the block minePendingTransactions appends holds the transactions of
\* the pool as it was at the call, in their order, followed by the new
\* reward transaction; the pool afterwards holds no submitted transaction,
\* and the number of places a submitted transaction occupies in the chain
\* and the pool together is unchanged, so each is in one block and in no
\* later one
C17_PoolMovesIntoBlock ==
    [][\A a \in AddressValues :
          (ret'.op = "minePendingTransactions"
               /\ minePendingTransactions(a, Now(chain)))
              => /\ Items(chain'[Len(chain')])
                       = Append(pendingTransactions,
                                Transaction(JsNull, a, JsNum(miningReward)))
                 /\ Submissions(pendingTransactions') = 0
                 /\ SubmissionsFrom(chain', 2)
                       = SubmissionsFrom(chain, 2)
                             + Submissions(pendingTransactions)]_vars

\* a block has been mined over a pool that held the earlier reward
\* transaction and, after it, a submitted one
C17_Witness ==
    /\ ret.op = "minePendingTransactions"
    /\ Len(Items(chain[Len(chain)])) = 3
    /\ IsReward(Items(chain[Len(chain)])[1])
    /\ ~IsReward(Items(chain[Len(chain)])[2])
    /\ IsReward(Items(chain[Len(chain)])[3])

\* C18: right after minePendingTransactions(miningRewardAddress) the pool
\* holds exactly one transaction, with fromAddress null, toAddress the
\* reward address, amount miningReward and no signature; it is the pool's
\* own: a transaction accepted next joins it in the pool and leaves the
\* mined block's transactions as they were
C18_PoolPrimedWithReward ==
    [][/\ \A a \in AddressValues :
             (ret'.op = "minePendingTransactions"
                  /\ minePendingTransactions(a, Now(chain)))
                 => pendingTransactions'
                        = <<[fromAddress |-> JsNull, toAddress |-> a,
                             amount |-> JsNum(miningReward)]>>
       /\ (ret.op = "minePendingTransactions" /\ ret'.op = "addTransaction"
               /\ ret'.out.threw = "" /\ AddTransactionCall)
              => /\ Len(pendingTransactions') = 2
                 /\ pendingTransactions'[1] = pendingTransactions[1]
                 /\ Items(chain'[Len(chain')]) = Items(chain[Len(chain)])]_vars

\* B has mined right after A: the pool holds B's reward alone, and the
\* block just mined begins with A's
C18_Witness ==
    /\ ret.op = "minePendingTransactions"
    /\ Len(chain) = 3
    /\ pendingTransactions
           = <<Transaction(JsNull, JsStr("B"), JsNum(miningReward))>>
    /\ Items(chain[3])[1] = Transaction(JsNull, JsStr("A"), JsNum(miningReward))

\* str has at least k characters and its first k are all "0"
LeadingZeros(str, k) ==
    /\ Len(str) >= k
    /\ \A i \in 1..k : SubSeq(str, i, i) = "0"

\* C19: when mineBlock(d) has returned, the first d characters of the
\* block's hash are all "0"; so a block mined as minePendingTransactions
\* mines it, with the ledger's difficulty of 2, has a hash that begins "00"
C19_MinedHashPrefix ==
    /\ pc.loc = "mined" => LeadingZeros(block.hash.s, pc.difficulty)
    /\ (BlockAtRest /\ MineIterations(block, difficulty, MaxNonce) <= MaxNonce)
           => LeadingZeros(mineBlock(block, difficulty).hash.s, difficulty)

\* mineBlock(2) has returned after a search of several nonces
C19_Witness ==
    /\ pc.loc = "mined"
    /\ pc.difficulty = 2
    /\ block.nonce.n >= 2

\* first blocks that differ from the genesis block in one serialized field
GenesisVariants ==
    LET genesis == createGenesisBlock
    IN {[genesis EXCEPT !.timestamp = v] :
            v \in {JsStr("01/01/2021"), JsNum(1), JsUndefined}}
       \cup {[genesis EXCEPT !.transactions = v] :
                v \in {JsStr("Genesis"), JsArray(<<>>)}
                      \cup {JsArray(<<r>>) : r \in RewardTransactions}}
       \cup {[genesis EXCEPT !.previousHash = v] :
                v \in {JsStr(""), JsStr("00"), JsUndefined}}
       \cup {[genesis EXCEPT !.hash = v] :
                v \in {StrayHash, calculateHash(genesis)}}
       \cup {[genesis EXCEPT !.nonce = v] :
                v \in {JsNum(1), JsStr("0"), JsNull}}

\* C20: when the first block of the chain differs from a new genesis block
\* in a serialized field (timestamp, transactions, previousHash, hash or
\* nonce), isChainValid() returns false, alone or followed by any block,
\* also by one whose examination would throw
C20_GenesisChecked ==
    BlockAtRest =>
        \A g \in GenesisVariants :
            /\ isChainValid(<<g>>) = Return(JsFalse)
            /\ isChainValid(<<g, block>>) = Return(JsFalse)

\* the block after the genesis block is one isChainValid() throws on when
\* the genesis block is in order
C20_Witness ==
    /\ BlockAtRest
    /\ isChainValid(<<createGenesisBlock, block>>).threw # ""
    /\ \A g \in GenesisVariants :
           isChainValid(<<g, block>>) = Return(JsFalse)

\* C21: on a transaction its sender has just signed, writing another
\* toAddress, another amount, or both, makes isValid() return false
C21_SignatureBindsTriple ==
    (ret = [op |-> "signTransaction", out |-> Return(JsUndefined)]) =>
        \A t \in TxRecipients, a \in TxAmounts :
            (t # heldTx.toAddress \/ JsNum(a) # heldTx.amount) =>
                TxIsValid([heldTx EXCEPT !.toAddress = t, !.amount = JsNum(a)])
                    = Return(JsFalse)

\* the block holds the same submitted transaction twice
HoldsTwice(b) ==
    \E j, k \in 1..Len(Items(b)) :
        j < k /\ Items(b)[j] = Items(b)[k] /\ ~IsReward(Items(b)[j])

\* C22: addTransaction accepts every correctly signed transaction with a
\* sender and a recipient, whatever its amount (zero, negative, more than the
\* sender's balance) and whether or not the same transaction is already
\* pending: it returns undefined and the pool grows by the transaction
C22_AnyAmountAccepted ==
    \A tx \in PermissiveTransactions :
        AddedPool(pendingTransactions, tx)
            = [out |-> Return(JsUndefined),
               pendingTransactions |-> Append(pendingTransactions, tx)]

\* a block mined with the same overdrawing transfer in it twice leaves the
\* sender's balance below zero
C22_Witness ==
    /\ ret.op = "minePendingTransactions"
    /\ \E i \in 2..Len(chain) : HoldsTwice(chain[i])
    /\ getBalanceOfAddress(chain, JsStr("A")).n < 0

\* the number of no-sender transactions in the pool
PendingRewards(pending) ==
    Cardinality({j \in 1..Len(pending) : IsReward(pending[j])})

\* C23: addTransaction tests completeness before validity: a no-sender
\* transaction, for which isValid() is true, and an unsigned transaction with
\* an empty recipient, for which isValid() throws the missing-signature
\* error, are both refused with the incomplete-transaction error and leave
\* the pool alone; the pool's no-sender transactions grow in number only in
\* minePendingTransactions
C23_CompletenessFirst ==
    /\ [](LET reward == Submitted(JsNull, JsStr("B"), 1, "unsigned")
              blank == Submitted(JsStr("A"), JsStr(""), 1, "unsigned")
          IN /\ TxIsValid(reward) = Return(JsTrue)
             /\ TxIsValid(blank) = Throw(ErrNoSignature)
             /\ \A tx \in {reward, blank} :
                    AddedPool(pendingTransactions, tx)
                        = [out |-> Throw(ErrIncomplete),
                           pendingTransactions |-> pendingTransactions])
    /\ [][PendingRewards(pendingTransactions')
              > PendingRewards(pendingTransactions)
                  => ret'.op = "minePendingTransactions"]_vars

\* an incomplete submission has just been refused by a ledger whose pool holds
\* the reward a mining call left there
C23_Witness ==
    /\ ret = [op |-> "addTransaction", out |-> Throw(ErrIncomplete)]
    /\ PendingRewards(pendingTransactions) = 1
    /\ Len(chain) > 1

\* the sum of the amounts of the no-sender transactions of items[i..]
RECURSIVE RewardsOver(_, _)
RewardsOver(items, i) ==
    IF i > Len(items) THEN 0
    ELSE (IF IsReward(items[i]) THEN items[i].amount.n ELSE 0)
             + RewardsOver(items, i + 1)

\* the same over the blocks c[i..] that minePendingTransactions appended
RECURSIVE RewardsFrom(_, _)
RewardsFrom(c, i) ==
    IF i > Len(c) THEN 0
    ELSE RewardsOver(Items(c[i]), 1) + RewardsFrom(c, i + 1)

\* the block holds a transfer from sender to recipient
HoldsTransfer(b, sender, recipient) ==
    \E j \in 1..Len(Items(b)) :
        /\ Items(b)[j].fromAddress = sender
        /\ Items(b)[j].toAddress = recipient

\* C24: value is conserved: the balances of all addresses together are the
\* sum of the amounts of the no-sender transactions in the chain, transfers
\* and self-transfers adding nothing
C24_ValueConserved ==
    /\ \A a \in AddressValues : getBalanceOfAddress(chain, a).t = "number"
    /\ getBalanceOfAddress(chain, JsStr("A")).n
           + getBalanceOfAddress(chain, JsStr("B")).n
               = RewardsFrom(chain, 2)

\* two blocks mined, a transfer from A to A in one of them and a transfer
\* from A to B in one of them
C24_Witness ==
    /\ ret.op = "minePendingTransactions"
    /\ Len(chain) = 3
    /\ \E i \in 2..Len(chain) : HoldsTransfer(chain[i], JsStr("A"), JsStr("A"))
    /\ \E i \in 2..Len(chain) : HoldsTransfer(chain[i], JsStr("A"), JsStr("B"))

====
